---- MODULE Spec2Model ----
(***************************************************************************)
(* Model of the selection tree of mrab-project-to-text                     *)
(* (src/src/projectFileProvider.ts): ProjectFileProvider builds a tree of  *)
(* FileNode objects from the files of the workspace, marks the files that  *)
(* match the include/exclude globs, and lets the user toggle nodes.        *)
(*                                                                         *)
(* Also modelled: toBraceExpandedPattern of the utilities                  *)
(* (src/unnamed/part_001), which expands the brace groups of a glob, and   *)
(* generateStructuredText (src/src/generate.ts), which writes the listing  *)
(* and the contents of the selected files.                                 *)
(*                                                                         *)
(* The FileNode objects live in one heap; where the view is followed, the  *)
(* nodes of a replaced tree stay in it beside those of the tree in place.  *)
(*                                                                         *)
(* Strings are tuples of one-character strings, so that split, join and    *)
(* glob matching are computed character by character.                      *)
(***************************************************************************)
EXTENDS Integers, Sequences, FiniteSets, TLC

\* ------------------------------------------------------------------------
\* Bounds
\* ------------------------------------------------------------------------

\* Largest number of buildFileTree calls suspended at an await at one time.
MaxInFlight == 1

\* Largest number of buildFileTree calls in flight together when loadConfig
\* is called again before the earlier calls have ended.
MaxRebuilds == 2

\* Largest number of FileNode objects alive when loadConfig is called again:
\* the view keeps the nodes it was given, also those of a replaced tree.
MaxKept == 3

\* Longest pattern, among those listed character by character, that
\* toBraceExpandedPattern is called on.
MaxPatternLen == 6

\* Largest number of files generateStructuredText is called with.
MaxSelected == 3

\* ------------------------------------------------------------------------
\* Strings
\* ------------------------------------------------------------------------

\* The two characters the code splits a relative path on (/[\\/]/).
SepChars == {"/", "\\"}

\* Collation rank of a character under String.prototype.localeCompare:
\* punctuation sorts before letters, letters alphabetically.
CharRank(c) ==
  CASE c = "/"  -> 1
    [] c = "\\" -> 2
    [] c = "a"  -> 3
    [] c = "b"  -> 4
    [] c = "c"  -> 5
    [] OTHER    -> 6

\* localeCompare(s, t): negative, zero or positive.
RECURSIVE localeCompare(_, _)
localeCompare(s, t) ==
  IF s = <<>> /\ t = <<>> THEN 0
  ELSE IF s = <<>> THEN -1
  ELSE IF t = <<>> THEN 1
  ELSE IF CharRank(Head(s)) < CharRank(Head(t)) THEN -1
  ELSE IF CharRank(Head(s)) > CharRank(Head(t)) THEN 1
  ELSE localeCompare(Tail(s), Tail(t))

\* relPath.split(/[\\/]/): the segments between separator characters.
RECURSIVE SplitFrom(_, _)
SplitFrom(s, cur) ==
  IF s = <<>> THEN <<cur>>
  ELSE IF Head(s) \in SepChars THEN <<cur>> \o SplitFrom(Tail(s), <<>>)
  ELSE SplitFrom(Tail(s), Append(cur, Head(s)))

Split(relPath) == SplitFrom(relPath, <<>>)

\* globs.join(','): the elements separated by commas.
RECURSIVE Join(_)
Join(globs) ==
  IF globs = <<>> THEN <<>>
  ELSE IF Len(globs) = 1 THEN globs[1]
  ELSE globs[1] \o <<",">> \o Join(Tail(globs))

\* ------------------------------------------------------------------------
\* The workspace: files on disk and the projectToText settings
\* ------------------------------------------------------------------------

\* fsPath of the workspace folder (folders[0].uri).
workspaceRoot == <<"/", "w">>

\* vscode.Uri.joinPath(workspaceRoot, rel).
joinPath(root, rel) == root \o <<"/">> \o rel

\* vscode.workspace.asRelativePath(uri): the path below the workspace folder.
asRelativePath(uri) ==
  IF /\ Len(uri) > Len(workspaceRoot) + 1
     /\ SubSeq(uri, 1, Len(workspaceRoot) + 1) = workspaceRoot \o <<"/">>
  THEN SubSeq(uri, Len(workspaceRoot) + 2, Len(uri))
  ELSE uri

\* Files of the workspace.  On a POSIX file system a backslash is a legal
\* character of a file name: /w/b\a is a file of the workspace folder itself,
\* /w/b/a a file of its directory b, /w/b/a\a a file of b named "a\a".
FileBA   == joinPath(workspaceRoot, <<"b", "/", "a">>)
FileBsA  == joinPath(workspaceRoot, <<"b", "\\", "a">>)
FileBCA  == joinPath(workspaceRoot, <<"b", "/", "c", "/", "a">>)
FileA    == joinPath(workspaceRoot, <<"a">>)
FileBAsA == joinPath(workspaceRoot, <<"b", "/", "a", "\\", "a">>)

\* p is a proper directory prefix of q on disk (directories end at "/").
IsDirPrefix(p, q) ==
  /\ Len(p) < Len(q)
  /\ SubSeq(q, 1, Len(p)) = p
  /\ q[Len(p) + 1] = "/"

\* A file system holds no path that is both a file and a directory.
Consistent(w) == \A p \in w, q \in w : ~IsDirPrefix(p, q)

\* The workspaces considered.
Workspaces ==
  {w \in { {}, {FileA}, {FileBA, FileBsA}, {FileBA, FileBCA, FileA},
           {FileA, FileBA, FileBAsA} } : Consistent(w)}

\* Values of the projectToText.include / projectToText.exclude settings.
PatAll   == <<"*", "*", "/", "*">>
PatBStar == <<"b", "/", "*">>
PatBAny  == <<"b", "/", "*", "*">>
PatA     == <<"a">>
PatBC    == <<"b", "/", "c", "/", "*">>

Configs ==
  { [include |-> <<PatBStar>>,      exclude |-> <<>>],
    [include |-> <<>>,              exclude |-> <<PatBC>>],
    [include |-> <<PatBAny, PatA>>, exclude |-> <<PatA, PatBC>>] }

\* ------------------------------------------------------------------------
\* vscode.workspace.findFiles: glob matching
\* ------------------------------------------------------------------------

\* Index of the "}" that closes the "{" at position 1 of p, 0 if there is none.
RECURSIVE CloseBraceFrom(_, _, _)
CloseBraceFrom(p, i, depth) ==
  IF i > Len(p) THEN 0
  ELSE IF p[i] = "{" THEN CloseBraceFrom(p, i + 1, depth + 1)
  ELSE IF p[i] = "}" THEN (IF depth = 1 THEN i ELSE CloseBraceFrom(p, i + 1, depth - 1))
  ELSE CloseBraceFrom(p, i + 1, depth)

\* The alternatives of a brace group: its interior split on the commas that
\* are not inside a nested group.
RECURSIVE Alternatives(_, _, _)
Alternatives(s, cur, depth) ==
  IF s = <<>> THEN {cur}
  ELSE IF Head(s) = "," /\ depth = 0 THEN {cur} \cup Alternatives(Tail(s), <<>>, 0)
  ELSE Alternatives(Tail(s), Append(cur, Head(s)),
                    IF Head(s) = "{" THEN depth + 1
                    ELSE IF Head(s) = "}" THEN depth - 1 ELSE depth)

\* Glob pattern p matches the whole of path s.  "*" is any run of characters
\* without a separator, "**" any run of characters, "**/" also no directory
\* at all, "{x,y}" either alternative; a separator in the pattern matches
\* either separator of the path.
RECURSIVE GlobMatch(_, _)
GlobMatch(p, s) ==
  IF p = <<>> THEN s = <<>>
  ELSE IF Head(p) = "{" /\ CloseBraceFrom(p, 1, 0) > 0 THEN
    LET j == CloseBraceFrom(p, 1, 0)
    IN \E alt \in Alternatives(SubSeq(p, 2, j - 1), <<>>, 0) :
         GlobMatch(alt \o SubSeq(p, j + 1, Len(p)), s)
  ELSE IF Head(p) = "*" /\ Len(p) >= 2 /\ p[2] = "*" THEN
    \/ \E k \in 0..Len(s) : GlobMatch(SubSeq(p, 3, Len(p)), SubSeq(s, k + 1, Len(s)))
    \/ Len(p) >= 3 /\ p[3] \in SepChars /\ GlobMatch(SubSeq(p, 4, Len(p)), s)
  ELSE IF Head(p) = "*" THEN
    \E k \in 0..Len(s) :
      /\ \A i \in 1..k : s[i] \notin SepChars
      /\ GlobMatch(Tail(p), SubSeq(s, k + 1, Len(s)))
  ELSE
    /\ s # <<>>
    /\ \/ Head(p) = Head(s)
       \/ Head(p) \in SepChars /\ Head(s) \in SepChars
    /\ GlobMatch(Tail(p), Tail(s))

\* findFiles(include, exclude) over the files on disk.  An empty (falsy)
\* include or exclude string means that no such filter is given: the search
\* is then not restricted by it.
findFiles(include, exclude, files) ==
  {f \in files : /\ (include = <<>> \/ GlobMatch(include, asRelativePath(f)))
                 /\ ~(exclude # <<>> /\ GlobMatch(exclude, asRelativePath(f)))}

\* toBracePattern without the early return for an empty list.
toBracePattern_NoEmptyCase(globs) ==
  IF Len(globs) = 1 THEN globs[1]
  ELSE <<"{">> \o Join(globs) \o <<"}">>

\* toBracePattern(globs): several globs become one brace pattern.
toBracePattern(globs) ==
  IF Len(globs) = 0 THEN <<>>
  ELSE IF Len(globs) = 1 THEN globs[1]
  ELSE <<"{">> \o Join(globs) \o <<"}">>

\* ------------------------------------------------------------------------
\* FileNode objects and the tree under construction
\* ------------------------------------------------------------------------

\* A reference to a children array: 0 is this.rootNodes, n > 0 the children
\* array of node n, Undefined the value of the children field of a file node.
Undefined == -1

\* new FileNode(uri, label, collapsibleState, selected): children is unset.
FileNode(uri, label, collapsibleState, selected) ==
  [uri |-> uri, label |-> label, collapsibleState |-> collapsibleState,
   selected |-> selected, children |-> <<>>, hasChildren |-> FALSE]

\* The value of this.rootNodes / this.nodeIndex after "Clear old data".
EmptyTree == [nodes |-> <<>>, rootNodes |-> <<>>, nodeIndex |-> <<>>, threw |-> FALSE]

\* node.children as an array reference.
ChildrenRef(st, n) == IF st.nodes[n].hasChildren THEN n ELSE Undefined

\* The array a reference denotes.
ArrayOf(st, ref) == IF ref = 0 THEN st.rootNodes ELSE st.nodes[ref].children

\* array.push(n).
Push(st, ref, n) ==
  IF ref = 0 THEN [st EXCEPT !.rootNodes = Append(@, n)]
  ELSE [st EXCEPT !.nodes[ref].children = Append(@, n)]

\* this.nodeIndex[path] = n.
SetIndex(st, path, n) ==
  [st EXCEPT !.nodeIndex = [q \in DOMAIN st.nodeIndex \cup {path} |->
                              IF q = path THEN n ELSE st.nodeIndex[q]]]

\* The body of addNode's loop from segment i on.  parentArray.push on an
\* undefined parentArray throws a TypeError, which ends the build.
RECURSIVE addNodeFrom(_, _, _, _, _, _, _)
addNodeFrom(st, segments, i, prevPath, parentArray, fileUri, isSelected) ==
  IF i > Len(segments) \/ st.threw THEN st
  ELSE
    LET seg         == segments[i]
        isLast      == i = Len(segments)
        currentPath == IF prevPath # <<>> THEN prevPath \o <<"/">> \o seg ELSE seg
        n           == Len(st.nodes) + 1
    IN IF ~isLast THEN
         IF currentPath \notin DOMAIN st.nodeIndex THEN
           IF parentArray = Undefined THEN [st EXCEPT !.threw = TRUE]
           ELSE
             LET folderNode == [FileNode(joinPath(workspaceRoot, currentPath), seg,
                                         "Collapsed", FALSE)
                                  EXCEPT !.hasChildren = TRUE]
                 st1 == SetIndex(Push([st EXCEPT !.nodes = Append(@, folderNode)],
                                      parentArray, n), currentPath, n)
             IN addNodeFrom(st1, segments, i + 1, currentPath,
                            ChildrenRef(st1, n), fileUri, isSelected)
         ELSE addNodeFrom(st, segments, i + 1, currentPath,
                          ChildrenRef(st, st.nodeIndex[currentPath]), fileUri, isSelected)
       ELSE
         IF parentArray = Undefined THEN [st EXCEPT !.threw = TRUE]
         ELSE
           LET fileNode == FileNode(fileUri, seg, "None", isSelected)
           IN SetIndex(Push([st EXCEPT !.nodes = Append(@, fileNode)],
                            parentArray, n), currentPath, n)

addNode(st, segments, fileUri, isSelected) ==
  addNodeFrom(st, segments, 1, <<>>, 0, fileUri, isSelected)

\* The loop over allFiles with every file node created selected.
RECURSIVE addAll_AllSelected(_, _, _)
addAll_AllSelected(st, allFiles, includedSet) ==
  IF allFiles = <<>> \/ st.threw THEN st
  ELSE addAll_AllSelected(addNode(st, Split(asRelativePath(Head(allFiles))),
                                  Head(allFiles), TRUE),
                          Tail(allFiles), includedSet)

\* for (const fileUri of allFiles) { ... addNode(...) }
RECURSIVE addAll(_, _, _)
addAll(st, allFiles, includedSet) ==
  IF allFiles = <<>> \/ st.threw THEN st
  ELSE addAll(addNode(st, Split(asRelativePath(Head(allFiles))), Head(allFiles),
                      Head(allFiles) \in includedSet),
              Tail(allFiles), includedSet)

\* ------------------------------------------------------------------------
\* Sorting (Array.prototype.sort is stable)
\* ------------------------------------------------------------------------

\* x inserted into the sorted sequence acc behind every element that does
\* not compare greater than it by fsPath.
RECURSIVE InsertFile(_, _)
InsertFile(acc, x) ==
  IF acc = <<>> THEN <<x>>
  ELSE IF localeCompare(Head(acc), x) > 0 THEN <<x>> \o acc
  ELSE <<Head(acc)>> \o InsertFile(Tail(acc), x)

RECURSIVE SortFilesInto(_, _)
SortFilesInto(acc, rest) ==
  IF rest = <<>> THEN acc
  ELSE SortFilesInto(InsertFile(acc, Head(rest)), Tail(rest))

\* allFiles left in the order findFiles returned it.
sortAllFiles_Unsorted(allFiles) == allFiles

\* allFiles.sort((a, b) => a.fsPath.localeCompare(b.fsPath))
sortAllFiles(allFiles) == SortFilesInto(<<>>, allFiles)

\* A comparator by label alone.
compareNodes_LabelOnly(a, b) == localeCompare(a.label, b.label)

\* The comparator of sortNodes: directories first, then by label.
compareNodes(a, b) ==
  LET aIsDir == a.collapsibleState = "Collapsed"
      bIsDir == b.collapsibleState = "Collapsed"
  IN IF aIsDir /\ ~bIsDir THEN -1
     ELSE IF ~aIsDir /\ bIsDir THEN 1
     ELSE localeCompare(a.label, b.label)

RECURSIVE InsertNode(_, _, _)
InsertNode(heap, acc, x) ==
  IF acc = <<>> THEN <<x>>
  ELSE IF compareNodes(heap[Head(acc)], heap[x]) > 0 THEN <<x>> \o acc
  ELSE <<Head(acc)>> \o InsertNode(heap, Tail(acc), x)

RECURSIVE SortNodesInto(_, _, _)
SortNodesInto(heap, acc, rest) ==
  IF rest = <<>> THEN acc
  ELSE SortNodesInto(heap, InsertNode(heap, acc, Head(rest)), Tail(rest))

\* sortNodes(nodes): the array behind ref is sorted, then the children array
\* of each of its nodes that has one.
RECURSIVE sortNodes(_, _)
RECURSIVE sortEach(_, _)
sortNodes(st, ref) ==
  LET sorted == SortNodesInto(st.nodes, <<>>, ArrayOf(st, ref))
      st1    == IF ref = 0 THEN [st EXCEPT !.rootNodes = sorted]
                ELSE [st EXCEPT !.nodes[ref].children = sorted]
  IN sortEach(st1, sorted)

sortEach(st, arr) ==
  IF arr = <<>> THEN st
  ELSE sortEach(IF st.nodes[Head(arr)].hasChildren THEN sortNodes(st, Head(arr)) ELSE st,
                Tail(arr))

\* The synchronous tail of buildFileTree (lines 126-167): the tree built from
\* the sorted allFiles and the set of included files.  When addNode throws,
\* the tree stays as it was at the throw, unsorted.
buildTree(allFiles, includedSet) ==
  LET st == addAll(EmptyTree, allFiles, includedSet)
  IN IF st.threw THEN st ELSE sortNodes(st, 0)

\* ------------------------------------------------------------------------
\* Selection operations
\* ------------------------------------------------------------------------

\* recurse stopping at the nodes of the array itself.
RECURSIVE toggleRecurse_Shallow(_, _, _)
toggleRecurse_Shallow(heap, children, newState) ==
  IF children = <<>> THEN heap
  ELSE toggleRecurse_Shallow([heap EXCEPT ![Head(children)].selected = newState],
                             Tail(children), newState)

\* recurse of toggleFile: every node below the array gets newState.
RECURSIVE toggleRecurse(_, _, _)
toggleRecurse(heap, children, newState) ==
  IF children = <<>> THEN heap
  ELSE
    LET c  == Head(children)
        h1 == [heap EXCEPT ![c].selected = newState]
        h2 == IF h1[c].hasChildren THEN toggleRecurse(h1, h1[c].children, newState) ELSE h1
    IN toggleRecurse(h2, Tail(children), newState)

\* toggleFile that selects instead of negating.
toggleFile_AlwaysSelect(heap, node) ==
  LET h1 == [heap EXCEPT ![node].selected = TRUE]
  IN IF h1[node].hasChildren THEN toggleRecurse(h1, h1[node].children, TRUE) ELSE h1

\* toggleFile that writes the new state to every node of the tree.
toggleFile_WholeTree(heap, node) ==
  [m \in 1..Len(heap) |-> [heap[m] EXCEPT !.selected = ~heap[node].selected]]

\* toggleFile that looks the node up by uri and toggles every node of that
\* uri as well.
toggleFile_ByUri(heap, node) ==
  LET newState == ~heap[node].selected
      h1       == [m \in 1..Len(heap) |->
                     IF heap[m].uri = heap[node].uri
                     THEN [heap[m] EXCEPT !.selected = newState] ELSE heap[m]]
  IN IF h1[node].hasChildren THEN toggleRecurse(h1, h1[node].children, newState) ELSE h1

\* toggleFile(node): the heap after the call.
toggleFile(heap, node) ==
  LET newState == ~heap[node].selected
      h1       == [heap EXCEPT ![node].selected = newState]
  IN IF h1[node].hasChildren THEN toggleRecurse(h1, h1[node].children, newState) ELSE h1

\* recurse that does not descend into children.
RECURSIVE selectRecurse_RootsOnly(_, _, _)
selectRecurse_RootsOnly(heap, arr, value) ==
  IF arr = <<>> THEN heap
  ELSE selectRecurse_RootsOnly([heap EXCEPT ![Head(arr)].selected = value],
                               Tail(arr), value)

\* recurse of selectAll (value TRUE) and of selectNone (value FALSE).
RECURSIVE selectRecurse(_, _, _)
selectRecurse(heap, arr, value) ==
  IF arr = <<>> THEN heap
  ELSE
    LET node == Head(arr)
        h1   == [heap EXCEPT ![node].selected = value]
        h2   == IF h1[node].hasChildren THEN selectRecurse(h1, h1[node].children, value) ELSE h1
    IN selectRecurse(h2, Tail(arr), value)

\* collect that pushes every selected node, directories too.
RECURSIVE collect_WithDirectories(_, _)
collect_WithDirectories(heap, arr) ==
  IF arr = <<>> THEN <<>>
  ELSE
    LET node == heap[Head(arr)]
    IN (IF node.selected THEN <<node.uri>> ELSE <<>>)
       \o (IF node.hasChildren THEN collect_WithDirectories(heap, node.children) ELSE <<>>)
       \o collect_WithDirectories(heap, Tail(arr))

\* collect of getSelectedFiles: the uris pushed to output, in order.
RECURSIVE collect(_, _)
collect(heap, arr) ==
  IF arr = <<>> THEN <<>>
  ELSE
    LET node == heap[Head(arr)]
    IN (IF node.hasChildren /\ Len(node.children) > 0 THEN collect(heap, node.children)
        ELSE IF node.selected THEN <<node.uri>>
        ELSE <<>>) \o collect(heap, Tail(arr))

\* ------------------------------------------------------------------------
\* utils: toBraceExpandedPattern
\* ------------------------------------------------------------------------

\* The white space String.prototype.trim removes.
WhiteSpace == {" ", "\t"}

RECURSIVE trimStart(_)
trimStart(s) == IF s # <<>> /\ Head(s) \in WhiteSpace THEN trimStart(Tail(s)) ELSE s

RECURSIVE trimEnd(_)
trimEnd(s) ==
  IF s # <<>> /\ s[Len(s)] \in WhiteSpace THEN trimEnd(SubSeq(s, 1, Len(s) - 1)) ELSE s

\* choice.trim()
trim(s) == trimEnd(trimStart(s))

RECURSIVE splitCommaFrom(_, _)
splitCommaFrom(s, cur) ==
  IF s = <<>> THEN <<cur>>
  ELSE IF Head(s) = "," THEN <<cur>> \o splitCommaFrom(Tail(s), <<>>)
  ELSE splitCommaFrom(Tail(s), Append(cur, Head(s)))

\* A split that drops the empty choices.
splitComma_SkipEmpty(choices) ==
  LET all == splitCommaFrom(choices, <<>>)
  IN SelectSeq(all, LAMBDA c : c # <<>>)

\* choices.split(','): the empty string gives one empty choice.
splitComma(choices) == splitCommaFrom(choices, <<>>)

\* The index of the first brace character of p behind position i, 0 if none.
NextBraceAfter(p, i) ==
  LET later == {k \in (i + 1)..Len(p) : p[k] \in {"{", "}"}}
  IN IF later = {} THEN 0 ELSE CHOOSE k \in later : \A m \in later : k <= m

\* The match of /^(.*?)(\{([^{}]*)\})(.*)$/ on p: the positions of the "{"
\* and "}" of the leftmost group with no brace inside, <<0, 0>> without match.
matchGroup(p) ==
  LET opens == {i \in 1..Len(p) : /\ p[i] = "{"
                                  /\ NextBraceAfter(p, i) # 0
                                  /\ p[NextBraceAfter(p, i)] = "}"}
      first == CHOOSE i \in opens : \A m \in opens : i <= m
  IN IF opens = {} THEN <<0, 0>> ELSE <<first, NextBraceAfter(p, first)>>

\* The inner loop with every part pushed.
pushNew_All(expanded, parts) == expanded \o parts

\* for (const part of expandedParts) if (!expanded.includes(part)) push(part)
RECURSIVE pushNew(_, _)
pushNew(expanded, parts) ==
  IF parts = <<>> THEN expanded
  ELSE pushNew(IF \E k \in 1..Len(expanded) : expanded[k] = Head(parts)
               THEN expanded ELSE Append(expanded, Head(parts)),
               Tail(parts))

\* toBraceExpandedPattern(pattern) of utils: the expansions, in order.
RECURSIVE toBraceExpandedPattern(_)
RECURSIVE expandChoices(_, _, _, _)
toBraceExpandedPattern(pattern) ==
  LET match == matchGroup(pattern)
  IN IF match[1] = 0 THEN <<pattern>>
     ELSE expandChoices(SubSeq(pattern, 1, match[1] - 1),
                        splitComma(SubSeq(pattern, match[1] + 1, match[2] - 1)),
                        SubSeq(pattern, match[2] + 1, Len(pattern)),
                        <<>>)

\* The loop over the choices, from the choices left and the expansions so far.
expandChoices(prefix, choices, suffix, expanded) ==
  IF choices = <<>> THEN expanded
  ELSE expandChoices(prefix, Tail(choices), suffix,
                     pushNew(expanded,
                             toBraceExpandedPattern(prefix \o trim(Head(choices)) \o suffix)))

\* ------------------------------------------------------------------------
\* generate: generateStructuredText
\* ------------------------------------------------------------------------

\* UTF-16 code unit of a character.
CodeUnit(c) ==
  CASE c = "."  -> 46
    [] c = "/"  -> 47
    [] c = "0"  -> 48
    [] c = "\\" -> 92
    [] c = "a"  -> 97
    [] c = "b"  -> 98
    [] c = "c"  -> 99
    [] c = "s"  -> 115
    [] c = "t"  -> 116
    [] OTHER    -> 120

\* The default comparison of Array.prototype.sort: by code units.
RECURSIVE compareCodeUnits(_, _)
compareCodeUnits(s, t) ==
  IF s = <<>> /\ t = <<>> THEN 0
  ELSE IF s = <<>> THEN -1
  ELSE IF t = <<>> THEN 1
  ELSE IF CodeUnit(Head(s)) < CodeUnit(Head(t)) THEN -1
  ELSE IF CodeUnit(Head(s)) > CodeUnit(Head(t)) THEN 1
  ELSE compareCodeUnits(Tail(s), Tail(t))

RECURSIVE InsertPath(_, _)
InsertPath(acc, x) ==
  IF acc = <<>> THEN <<x>>
  ELSE IF compareCodeUnits(Head(acc), x) > 0 THEN <<x>> \o acc
  ELSE <<Head(acc)>> \o InsertPath(Tail(acc), x)

RECURSIVE SortPathsInto(_, _)
SortPathsInto(acc, rest) ==
  IF rest = <<>> THEN acc
  ELSE SortPathsInto(InsertPath(acc, Head(rest)), Tail(rest))

\* fileUris.map((uri) => asRelativePath(uri)).sort()
sortedPaths(fileUris) ==
  SortPathsInto(<<>>, [k \in 1..Len(fileUris) |-> asRelativePath(fileUris[k])])

\* One line of the output: what it is, the spaces it starts with, its text.
Line(kind, indent, text) == [kind |-> kind, indent |-> indent, text |-> text]

BlankLine == Line("blank", 0, <<>>)

\* A test of printedDirs that never finds the path.
hasPrinted_Never(printedDirs, cumulativePath) == FALSE

\* printedDirs.has(cumulativePath)
hasPrinted(printedDirs, cumulativePath) == cumulativePath \in printedDirs

\* The inner loop of the listing from segment i on; acc holds the lines so
\* far and printedDirs.
RECURSIVE listSegments(_, _, _, _, _)
listSegments(segments, i, prevPath, indent, acc) ==
  IF i > Len(segments) THEN acc
  ELSE
    LET segment        == segments[i]
        cumulativePath == IF prevPath # <<>> THEN prevPath \o <<"/">> \o segment ELSE segment
    IN IF i < Len(segments) THEN
         listSegments(segments, i + 1, cumulativePath, indent + 2,
                      IF ~hasPrinted(acc.printedDirs, cumulativePath)
                      THEN [lines       |-> Append(acc.lines, Line("folder", indent, segment)),
                            printedDirs |-> acc.printedDirs \cup {cumulativePath}]
                      ELSE acc)
       ELSE [acc EXCEPT !.lines = Append(@, Line("file", indent, segment))]

\* for (const relPath of sortedPaths) { ... }
RECURSIVE listPaths(_, _)
listPaths(paths, acc) ==
  IF paths = <<>> THEN acc
  ELSE listPaths(Tail(paths), listSegments(Split(Head(paths)), 1, <<>>, 0, acc))

\* treeText: the heading and the lines of the hierarchical project tree.
treeText(fileUris) ==
  listPaths(sortedPaths(fileUris),
            [lines |-> <<Line("heading", 0, <<"# Project Structure">>)>>,
             printedDirs |-> {}]).lines

\* s.toLowerCase() on the letters that occur.
toLowerCase(s) ==
  [k \in 1..Len(s) |-> CASE s[k] = "T" -> "t" [] s[k] = "S" -> "s" [] OTHER -> s[k]]

RECURSIVE splitDotFrom(_, _)
splitDotFrom(s, cur) ==
  IF s = <<>> THEN <<cur>>
  ELSE IF Head(s) = "." THEN <<cur>> \o splitDotFrom(Tail(s), <<>>)
  ELSE splitDotFrom(Tail(s), Append(cur, Head(s)))

\* relPath.split('.').pop()?.toLowerCase() || ''
extensionOf(relPath) ==
  LET pieces == splitDotFrom(relPath, <<>>)
  IN toLowerCase(pieces[Len(pieces)])

\* The language of the code fence, "" for none.
langOf(relPath) ==
  LET ext == extensionOf(relPath)
  IN IF ext = <<"t", "s">> THEN "typescript"
     ELSE IF ext = <<"j", "s">> THEN "javascript"
     ELSE ""

\* text.replace(/\r\n/g, '\n')
RECURSIVE replaceCrLf(_)
replaceCrLf(text) ==
  IF text = <<>> THEN <<>>
  ELSE IF Len(text) >= 2 /\ text[1] = "\r" /\ text[2] = "\n"
       THEN <<"\n">> \o replaceCrLf(SubSeq(text, 3, Len(text)))
  ELSE <<Head(text)>> \o replaceCrLf(Tail(text))

RECURSIVE skipBlanks(_)
skipBlanks(text) ==
  IF text # <<>> /\ Head(text) \in {" ", "\t"} THEN skipBlanks(Tail(text)) ELSE text

\* text.replace(/[ \t]+$/gm, ''): a run of blanks is dropped when the end of
\* the text or a line terminator follows it.
RECURSIVE stripTrailing(_)
stripTrailing(text) ==
  IF text = <<>> THEN <<>>
  ELSE IF Head(text) \in {" ", "\t"}
       THEN LET rest == skipBlanks(text)
            IN IF rest = <<>> \/ Head(rest) \in {"\n", "\r"} THEN stripTrailing(rest)
               ELSE SubSeq(text, 1, Len(text) - Len(rest)) \o stripTrailing(rest)
  ELSE <<Head(text)>> \o stripTrailing(Tail(text))

\* doc.getText().replace(/\r\n/g, '\n').replace(/[ \t]+$/gm, '')
normalize(text) == stripTrailing(replaceCrLf(text))

\* The lines of the preamble put before the text at the end.
Preamble ==
  << Line("preamble", 0, <<"# PROJECT-TO-TEXT OUTPUT">>),
     Line("preamble", 0, <<"This file contains the structure and contents of the selected project files.">>),
     Line("preamble", 0, <<"Each file is delimited with clear markers.">>),
     BlankLine >>

\* The loop over fileUris arrives at file i: the begin marker is written and
\* openTextDocument awaited, or, behind the last file, the preamble is put
\* in front and the text returned.
beginFile(c, i) ==
  IF i > Len(c.arg)
  THEN [c EXCEPT !.out = Preamble \o @, !.pc = "returned", !.i = i]
  ELSE [c EXCEPT !.out = Append(@, Line("begin", 0, asRelativePath(c.arg[i]))),
                 !.pc = "reading", !.i = i]

\* The end marker of file i and the step to the next file.
endFile(c) ==
  beginFile([c EXCEPT !.out = @ \o <<Line("end", 0, asRelativePath(c.arg[c.i])), BlankLine>>],
            c.i + 1)

\* openTextDocument resolved with a document whose text is text.
readResolved(c, text) ==
  LET relPath == asRelativePath(c.arg[c.i])
      content == Line("content", 0, normalize(text))
      lang    == langOf(relPath)
  IN endFile([c EXCEPT
       !.out = @ \o (IF lang # ""
                     THEN <<Line("fence", 0, <<lang>>), content, Line("fence", 0, <<>>)>>
                     ELSE <<content>>),
       !.reads = Append(@, [uri |-> c.arg[c.i], ok |-> TRUE])])

\* A rejected read that ends the call.
readRejected_Abort(c, err) ==
  [c EXCEPT !.pc = "returned", !.threw = TRUE, !.out = <<>>,
            !.reads = Append(@, [uri |-> c.arg[c.i], ok |-> FALSE])]

\* openTextDocument rejected with err: the catch block writes the notice.
readRejected(c, err) ==
  endFile([c EXCEPT
     !.out = Append(@, Line("error", 0, <<"((Could not read file content: ">> \o err \o <<"))">>)),
     !.reads = Append(@, [uri |-> c.arg[c.i], ok |-> FALSE])])

\* The call without the test of workspaceFolders.
startGenerate_NoGuard(foldersOpen, c) ==
  beginFile([c EXCEPT !.out = treeText(c.arg) \o <<BlankLine>>], 1)

\* The call up to its first await or, without a workspace folder, its return.
startGenerate(foldersOpen, c) ==
  IF ~foldersOpen THEN [c EXCEPT !.out = <<>>, !.pc = "returned"]
  ELSE beginFile([c EXCEPT !.out = treeText(c.arg) \o <<BlankLine>>], 1)

\* ------------------------------------------------------------------------
\* State
\* ------------------------------------------------------------------------

VARIABLES
  folders,       \* vscode.workspace.workspaceFolders is a non-empty array
  fs,            \* the files of the workspace folder
  includeGlobs,  \* ProjectFileProvider.includeGlobs
  excludeGlobs,  \* ProjectFileProvider.excludeGlobs
  rootNodes,     \* ProjectFileProvider.rootNodes: node ids
  nodes,         \* the FileNode objects of the tree, by id
  nodeIndex,     \* ProjectFileProvider.nodeIndex: path -> node id
  contextValue,  \* FileNode.contextValue by id, "unset" while stat is pending
  pending,       \* the buildFileTree calls suspended at an await
  built,         \* how buildFileTree last left the tree, and from which globs
  lastOp,        \* the provider method that ran last (a build: its last part)
  result,        \* the value it returned
  fired,         \* the argument of the notification it fired
  pre,           \* selected flags before it, if it changed them
  pre2,          \* selected flags before the first of two toggles in a row
  conc,          \* per suspended buildFileTree call: another was in flight with it
  overlapped,    \* the call that last touched the tree was in flight with another
  call           \* the call of an exported function (utils, generate) under way

vars == <<folders, fs, includeGlobs, excludeGlobs, rootNodes, nodes, nodeIndex,
          contextValue, pending, built, lastOp, result, fired, pre, pre2,
          conc, overlapped, call>>

\* The state of the tree provider.
providerVars == <<folders, fs, includeGlobs, excludeGlobs, rootNodes, nodes, nodeIndex,
                  contextValue, pending, built, lastOp, result, fired, pre, pre2,
                  conc, overlapped>>

\* fired: no notification, or _onDidChangeTreeData.fire(undefined); a node
\* id stands for fire(node).
NotFired  == -2
WholeTree == 0

\* result of an operation that returns nothing.
NoResult == <<"void">>

Op(name, node, twice) == [op |-> name, node |-> node, twice |-> twice]

Selection(heap) == [n \in 1..Len(heap) |-> heap[n].selected]

\* A buildFileTree call suspended at "await findFiles('**/*')" (line 115).
\* include and exclude record the globs the patterns were made from.
AtFindAll == [pc |-> "findAll", allFiles |-> <<>>,
              includePattern |-> <<>>, excludePattern |-> <<>>,
              include |-> <<>>, exclude |-> <<>>]

\* built.outcome: "none" before any run has touched the tree, "complete"
\* when the last run to touch it reached its end, "threw" when it threw.
Built(outcome, include, exclude) ==
  [outcome |-> outcome, include |-> include, exclude |-> exclude]

\* The sequences that list every element of S once: the orders in which
\* findFiles may return the files.
Orders(S) ==
  {q \in [1..Cardinality(S) -> S] : \A i, j \in 1..Cardinality(S) : q[i] = q[j] => i = j}

Remove(seq, i) == SubSeq(seq, 1, i - 1) \o SubSeq(seq, i + 1, Len(seq))

\* call while no exported function is running.
NoCall == [fn |-> "none", arg |-> <<>>, pc |-> "none", i |-> 0, out |-> <<>>,
           reads |-> <<>>, threw |-> FALSE]

\* An exported function called with arg, before its first statement.
Called(fn, arg) == [NoCall EXCEPT !.fn = fn, !.arg = arg, !.pc = "called"]

\* ------------------------------------------------------------------------
\* Initial state: new ProjectFileProvider(), which runs loadConfig()
\* ------------------------------------------------------------------------

InitProviderIn(workspaces) ==
  /\ folders \in BOOLEAN
  /\ fs \in workspaces
  /\ ~folders => fs = {}
  /\ \E c \in Configs : includeGlobs = c.include /\ excludeGlobs = c.exclude
  /\ rootNodes = <<>>
  /\ nodes = <<>>
  /\ nodeIndex = <<>>
  /\ contextValue = <<>>
  /\ pending = IF folders THEN <<AtFindAll>> ELSE <<>>
  /\ built = Built(IF folders THEN "none" ELSE "complete", <<>>, <<>>)
  /\ lastOp = Op("loadConfig", 0, FALSE)
  /\ result = NoResult
  /\ fired = IF folders THEN NotFired ELSE WholeTree
  /\ pre = <<>>
  /\ pre2 = <<>>
  /\ conc = [k \in 1..Len(pending) |-> FALSE]
  /\ overlapped = FALSE

InitProvider == InitProviderIn(Workspaces)

Init == InitProvider /\ call = NoCall

\* ------------------------------------------------------------------------
\* Actions
\* ------------------------------------------------------------------------

\* loadConfig(): the settings, holding c, are read and buildFileTree runs up
\* to its first await, or to its end when no workspace folder is open.
loadConfig(limit) ==
  /\ folders => Len(pending) < limit
  /\ \E c \in Configs : includeGlobs' = c.include /\ excludeGlobs' = c.exclude
  /\ IF folders
     THEN /\ pending' = Append(pending, AtFindAll)
          /\ fired' = NotFired
          /\ UNCHANGED <<rootNodes, nodes, nodeIndex, contextValue, built>>
     ELSE /\ rootNodes' = <<>>
          /\ nodeIndex' = <<>>
          /\ fired' = WholeTree
          /\ built' = Built("complete", <<>>, <<>>)
          /\ UNCHANGED <<pending, nodes, contextValue>>
  /\ lastOp' = Op("loadConfig", 0, FALSE)
  /\ result' = NoResult
  /\ pre' = <<>>
  /\ pre2' = <<>>
  /\ UNCHANGED <<call, folders, fs>>

\* loadConfig(), without the record of which calls overlap.
LoadConfig ==
  /\ loadConfig(MaxInFlight)
  /\ conc' = [k \in 1..Len(pending') |-> FALSE]
  /\ UNCHANGED overlapped

\* findFiles('**/*') resolves, with the files in any order: they are sorted,
\* the globs are turned into brace patterns and the second findFiles starts.
FindAllResolved(i) ==
  /\ pending[i].pc = "findAll"
  /\ \E found \in Orders(fs) :
       pending' = [pending EXCEPT ![i] =
                     [pc |-> "findIncluded",
                      allFiles |-> sortAllFiles(found),
                      includePattern |-> toBracePattern(includeGlobs),
                      excludePattern |-> toBracePattern(excludeGlobs),
                      include |-> includeGlobs,
                      exclude |-> excludeGlobs]]
  /\ UNCHANGED <<conc, overlapped, call, folders, fs, includeGlobs, excludeGlobs, rootNodes, nodes,
                 nodeIndex, contextValue, built, lastOp, result, fired, pre, pre2>>

\* An awaited findFiles rejects: buildFileTree rejects where it is suspended.
findFilesRejected(i) ==
  /\ pending' = Remove(pending, i)
  /\ UNCHANGED <<call, folders, fs, includeGlobs, excludeGlobs, rootNodes, nodes,
                 nodeIndex, contextValue, built, lastOp, result, fired, pre, pre2>>

FindFilesRejected(i) ==
  /\ findFilesRejected(i)
  /\ conc' = Remove(conc, i)
  /\ UNCHANGED overlapped

\* The build without "Clear old data": the nodes are added to the tree as
\* the call finds it.
buildResolved_NoClear(i) ==
  /\ pending[i].pc = "findIncluded"
  /\ LET includedSet == findFiles(pending[i].includePattern, pending[i].excludePattern, fs)
         added       == addAll([nodes |-> nodes, rootNodes |-> rootNodes,
                                nodeIndex |-> nodeIndex, threw |-> FALSE],
                               pending[i].allFiles, includedSet)
         st          == IF added.threw THEN added ELSE sortNodes(added, 0)
     IN /\ rootNodes' = st.rootNodes
        /\ nodes' = st.nodes
        /\ nodeIndex' = st.nodeIndex
        /\ contextValue' = [n \in 1..Len(st.nodes) |-> "unset"]
        /\ lastOp' = Op(IF st.threw THEN "buildThrew" ELSE "build", 0, FALSE)
        /\ fired' = IF st.threw THEN NotFired ELSE WholeTree
        /\ built' = Built(IF st.threw THEN "threw" ELSE "complete",
                          pending[i].include, pending[i].exclude)
  /\ pending' = Remove(pending, i)
  /\ result' = NoResult
  /\ pre' = <<>>
  /\ pre2' = <<>>
  /\ UNCHANGED <<call, folders, fs, includeGlobs, excludeGlobs>>

\* findFiles(includePattern, excludePattern) resolves: the old tree is
\* cleared, the new one built and sorted, and the notification fired.  A
\* TypeError thrown by addNode leaves the tree as it is at the throw.
buildResolved(i) ==
  /\ pending[i].pc = "findIncluded"
  /\ LET includedSet == findFiles(pending[i].includePattern, pending[i].excludePattern, fs)
         st          == buildTree(pending[i].allFiles, includedSet)
     IN /\ rootNodes' = st.rootNodes
        /\ nodes' = st.nodes
        /\ nodeIndex' = st.nodeIndex
        /\ contextValue' = [n \in 1..Len(st.nodes) |-> "unset"]
        /\ lastOp' = Op(IF st.threw THEN "buildThrew" ELSE "build", 0, FALSE)
        /\ fired' = IF st.threw THEN NotFired ELSE WholeTree
        /\ built' = Built(IF st.threw THEN "threw" ELSE "complete",
                          pending[i].include, pending[i].exclude)
  /\ pending' = Remove(pending, i)
  /\ result' = NoResult
  /\ pre' = <<>>
  /\ pre2' = <<>>
  /\ UNCHANGED <<call, folders, fs, includeGlobs, excludeGlobs>>

BuildResolved(i) ==
  /\ buildResolved(i)
  /\ conc' = Remove(conc, i)
  /\ UNCHANGED overlapped

\* toggleFile(node) firing the whole-tree notification.
ToggleFile_FireUndefined(node) ==
  /\ nodes' = toggleFile(nodes, node)
  /\ fired' = WholeTree
  /\ lastOp' = Op("toggleFile", node, lastOp.op = "toggleFile" /\ lastOp.node = node)
  /\ pre' = Selection(nodes)
  /\ pre2' = IF lastOp.op = "toggleFile" /\ lastOp.node = node THEN pre ELSE <<>>
  /\ result' = NoResult
  /\ UNCHANGED <<conc, overlapped, call, folders, fs, includeGlobs, excludeGlobs, rootNodes, nodeIndex,
                 contextValue, pending, built>>

\* toggleFile(node) on a node of the tree.
ToggleFile(node) ==
  /\ nodes' = toggleFile(nodes, node)
  /\ fired' = node
  /\ lastOp' = Op("toggleFile", node, lastOp.op = "toggleFile" /\ lastOp.node = node)
  /\ pre' = Selection(nodes)
  /\ pre2' = IF lastOp.op = "toggleFile" /\ lastOp.node = node THEN pre ELSE <<>>
  /\ result' = NoResult
  /\ UNCHANGED <<conc, overlapped, call, folders, fs, includeGlobs, excludeGlobs, rootNodes, nodeIndex,
                 contextValue, pending, built>>

SelectAll ==
  /\ nodes' = selectRecurse(nodes, rootNodes, TRUE)
  /\ fired' = WholeTree
  /\ lastOp' = Op("selectAll", 0, FALSE)
  /\ pre' = Selection(nodes)
  /\ pre2' = <<>>
  /\ result' = NoResult
  /\ UNCHANGED <<conc, overlapped, call, folders, fs, includeGlobs, excludeGlobs, rootNodes, nodeIndex,
                 contextValue, pending, built>>

SelectNone ==
  /\ nodes' = selectRecurse(nodes, rootNodes, FALSE)
  /\ fired' = WholeTree
  /\ lastOp' = Op("selectNone", 0, FALSE)
  /\ pre' = Selection(nodes)
  /\ pre2' = <<>>
  /\ result' = NoResult
  /\ UNCHANGED <<conc, overlapped, call, folders, fs, includeGlobs, excludeGlobs, rootNodes, nodeIndex,
                 contextValue, pending, built>>

GetSelectedFiles ==
  /\ result' = collect(nodes, rootNodes)
  /\ fired' = NotFired
  /\ lastOp' = Op("getSelectedFiles", 0, FALSE)
  /\ pre' = <<>>
  /\ pre2' = <<>>
  /\ UNCHANGED <<conc, overlapped, call, folders, fs, includeGlobs, excludeGlobs, rootNodes, nodes,
                 nodeIndex, contextValue, pending, built>>

\* vscode.workspace.fs.stat(uri) on the files of the workspace: "file",
\* "directory", or "missing" when nothing has that path.
stat(uri, files) ==
  IF uri \in files THEN "file"
  ELSE IF \E f \in files : IsDirPrefix(uri, f) THEN "directory"
  ELSE "missing"

\* The stat awaited by setContextValueAsync of a node resolves.
StatResolved(node) ==
  /\ contextValue[node] = "unset"
  /\ stat(nodes[node].uri, fs) # "missing"
  /\ contextValue' = [contextValue EXCEPT ![node] = stat(nodes[node].uri, fs)]
  /\ UNCHANGED <<conc, overlapped, call, folders, fs, includeGlobs, excludeGlobs, rootNodes, nodes,
                 nodeIndex, pending, built, lastOp, result, fired, pre, pre2>>

\* A catch block that sets contextValue to 'directory'.
StatRejected_AsDirectory(node) ==
  /\ contextValue[node] = "unset"
  /\ contextValue' = [contextValue EXCEPT ![node] = "directory"]
  /\ UNCHANGED <<conc, overlapped, call, folders, fs, includeGlobs, excludeGlobs, rootNodes, nodes,
                 nodeIndex, pending, built, lastOp, result, fired, pre, pre2>>

\* The stat rejects (nothing at that path, or an I/O error): the catch block
\* sets contextValue to 'file'.
StatRejected(node) ==
  /\ contextValue[node] = "unset"
  /\ contextValue' = [contextValue EXCEPT ![node] = "file"]
  /\ UNCHANGED <<conc, overlapped, call, folders, fs, includeGlobs, excludeGlobs, rootNodes, nodes,
                 nodeIndex, pending, built, lastOp, result, fired, pre, pre2>>

Next ==
  \/ LoadConfig
  \/ \E i \in 1..Len(pending) : FindAllResolved(i)
  \/ \E i \in 1..Len(pending) : FindFilesRejected(i)
  \/ \E i \in 1..Len(pending) : BuildResolved(i)
  \/ \E node \in 1..Len(nodes) : ToggleFile(node)
  \/ SelectAll
  \/ SelectNone
  \/ GetSelectedFiles

Spec == Init /\ [][Next]_vars

\* Builds together with the metadata fetches of the nodes they create.
NextBuild ==
  \/ LoadConfig
  \/ \E i \in 1..Len(pending) : FindAllResolved(i)
  \/ \E i \in 1..Len(pending) : FindFilesRejected(i)
  \/ \E i \in 1..Len(pending) : BuildResolved(i)
  \/ \E node \in 1..Len(nodes) : StatResolved(node)
  \/ \E node \in 1..Len(nodes) : StatRejected(node)

SpecBuild == Init /\ [][NextBuild]_vars

\* A write from outside to the public children field of a directory node:
\* node.children = null.
NullChildren(node) ==
  /\ nodes[node].hasChildren
  /\ nodes' = [nodes EXCEPT ![node].children = <<>>, ![node].hasChildren = FALSE]
  /\ lastOp' = Op("nullChildren", node, FALSE)
  /\ result' = NoResult
  /\ fired' = NotFired
  /\ pre' = <<>>
  /\ pre2' = <<>>
  /\ UNCHANGED <<conc, overlapped, call, folders, fs, includeGlobs, excludeGlobs,
                 rootNodes, nodeIndex, contextValue, pending, built>>

\* A write from outside that empties the array: node.children.length = 0.
ClearChildren(node) ==
  /\ nodes[node].hasChildren
  /\ nodes[node].children # <<>>
  /\ nodes' = [nodes EXCEPT ![node].children = <<>>]
  /\ lastOp' = Op("clearChildren", node, FALSE)
  /\ result' = NoResult
  /\ fired' = NotFired
  /\ pre' = <<>>
  /\ pre2' = <<>>
  /\ UNCHANGED <<conc, overlapped, call, folders, fs, includeGlobs, excludeGlobs,
                 rootNodes, nodeIndex, contextValue, pending, built>>

\* The first build, then the selection operations on a tree whose directory
\* nodes may lose their children from outside.
NextCorrupt ==
  \/ \E i \in 1..Len(pending) : FindAllResolved(i)
  \/ \E i \in 1..Len(pending) : BuildResolved(i)
  \/ \E node \in 1..Len(nodes) : ToggleFile(node)
  \/ SelectAll
  \/ SelectNone
  \/ GetSelectedFiles
  \/ \E node \in 1..Len(nodes) : NullChildren(node)
  \/ \E node \in 1..Len(nodes) : ClearChildren(node)

SpecCorrupt == Init /\ [][NextCorrupt]_vars

\* ------------------------------------------------------------------------
\* Rebuilds in flight together
\* ------------------------------------------------------------------------

\* loadConfig() called again, also while buildFileTree calls are suspended:
\* those calls and the new one are then in flight together.
Reload ==
  /\ loadConfig(MaxRebuilds)
  /\ conc' = IF ~folders THEN conc
             ELSE IF pending = <<>> THEN <<FALSE>>
             ELSE [k \in 1..(Len(pending) + 1) |-> TRUE]
  /\ UNCHANGED overlapped

\* An awaited findFiles of one of the calls rejects.
RebuildRejected(i) ==
  /\ findFilesRejected(i)
  /\ conc' = Remove(conc, i)
  /\ UNCHANGED overlapped

\* One of the calls runs from its second await to its end.
RebuildResolved(i) ==
  /\ buildResolved(i)
  /\ conc' = Remove(conc, i)
  /\ overlapped' = conc[i]

NextRebuild ==
  \/ Reload
  \/ \E i \in 1..Len(pending) : FindAllResolved(i)
  \/ \E i \in 1..Len(pending) : RebuildRejected(i)
  \/ \E i \in 1..Len(pending) : RebuildResolved(i)

SpecRebuild == Init /\ [][NextRebuild]_vars

\* ------------------------------------------------------------------------
\* The view: nodes of replaced trees stay alive
\* ------------------------------------------------------------------------

\* A build that gives the node of a file the flag the newest node of that
\* file in the heap holds, if there is one.
buildTreeOn_KeepSelection(heap, allFiles, includedSet) ==
  LET Old(f)  == {o \in 1..Len(heap) : heap[o].uri = f /\ heap[o].collapsibleState = "None"}
      Last(f) == CHOOSE o \in Old(f) : \A m \in Old(f) : m <= o
      kept    == {f \in {allFiles[k] : k \in 1..Len(allFiles)} :
                    IF Old(f) # {} THEN heap[Last(f)].selected ELSE f \in includedSet}
      st      == addAll([EmptyTree EXCEPT !.nodes = heap], allFiles, kept)
  IN IF st.threw THEN st ELSE sortNodes(st, 0)

\* The tail of buildFileTree on a heap that keeps the FileNode objects made
\* before: "Clear old data" gives the provider new arrays, and every node is
\* a new object.
buildTreeOn(heap, allFiles, includedSet) ==
  LET st == addAll([EmptyTree EXCEPT !.nodes = heap], allFiles, includedSet)
  IN IF st.threw THEN st ELSE sortNodes(st, 0)

\* The workspaces the view is followed on.
ViewWorkspaces == {w \in Workspaces : Cardinality(w) <= 2}

InitView ==
  /\ InitProviderIn(ViewWorkspaces)
  /\ call = NoCall

\* loadConfig() called again (a change of the settings).
ViewLoadConfig ==
  /\ Len(nodes) <= MaxKept
  /\ LoadConfig

\* buildFileTree runs from its second await to its end; the nodes of the
\* tree it replaces stay in the heap.
ViewBuildResolved(i) ==
  /\ pending[i].pc = "findIncluded"
  /\ LET includedSet == findFiles(pending[i].includePattern, pending[i].excludePattern, fs)
         st          == buildTreeOn(nodes, pending[i].allFiles, includedSet)
     IN /\ rootNodes' = st.rootNodes
        /\ nodes' = st.nodes
        /\ nodeIndex' = st.nodeIndex
        /\ contextValue' = [n \in 1..Len(st.nodes) |->
                              IF n <= Len(nodes) THEN contextValue[n] ELSE "unset"]
        /\ lastOp' = Op(IF st.threw THEN "buildThrew" ELSE "build", 0, FALSE)
        /\ fired' = IF st.threw THEN NotFired ELSE WholeTree
        /\ built' = Built(IF st.threw THEN "threw" ELSE "complete",
                          pending[i].include, pending[i].exclude)
  /\ pending' = Remove(pending, i)
  /\ conc' = Remove(conc, i)
  /\ result' = NoResult
  /\ pre' = <<>>
  /\ pre2' = <<>>
  /\ UNCHANGED <<overlapped, call, folders, fs, includeGlobs, excludeGlobs>>

\* getChildren(element): element?.children ?? this.rootNodes, element 0
\* standing for a call without a node.
getChildren(heap, roots, element) ==
  IF element = 0 THEN roots
  ELSE IF heap[element].hasChildren THEN heap[element].children
  ELSE roots

\* The view asks for the children of a node it holds, or for the roots.
GetChildren(element) ==
  /\ result' = getChildren(nodes, rootNodes, element)
  /\ fired' = NotFired
  /\ lastOp' = Op("getChildren", element, FALSE)
  /\ pre' = <<>>
  /\ pre2' = <<>>
  /\ UNCHANGED <<conc, overlapped, call, folders, fs, includeGlobs, excludeGlobs, rootNodes, nodes,
                 nodeIndex, contextValue, pending, built>>

\* The projectToText.toggleFile command passes any node the view holds, of
\* the current tree or of a replaced one.
NextView ==
  \/ ViewLoadConfig
  \/ \E i \in 1..Len(pending) : FindAllResolved(i)
  \/ \E i \in 1..Len(pending) : ViewBuildResolved(i)
  \/ \E node \in 1..Len(nodes) : ToggleFile(node)
  \/ SelectAll
  \/ SelectNone
  \/ \E element \in 0..Len(nodes) : GetChildren(element)

SpecView == InitView /\ [][NextView]_vars

\* ------------------------------------------------------------------------
\* Calls of toBraceExpandedPattern
\* ------------------------------------------------------------------------

\* The characters of the patterns listed character by character.
PatternChars == {"{", "}", ",", "a", " "}

\* Patterns of the tests of toBraceExpandedPattern.
PatDeep   == <<"a", "{", "b", "{", "c", ",", "d", "}", ",", "e", "}", "f">>
PatSpaces == <<"x", "/", "{", "a", ",", " ", "b", " ", ",", "c", "}">>
PatTwo    == <<"{", "a", ",", "b", "}", "{", "c", ",", "d", "}">>

\* The patterns toBraceExpandedPattern is called on.
Patterns ==
  UNION {[1..n -> PatternChars] : n \in 0..MaxPatternLen} \cup {PatDeep, PatSpaces, PatTwo}

\* No tree provider is at work (no workspace folder is open).
InitBrace ==
  /\ InitProvider
  /\ ~folders
  /\ includeGlobs = <<>>
  /\ \E pattern \in Patterns : call = Called("toBraceExpandedPattern", pattern)

\* The call runs to its return; the function has no throw statement.
ToBraceExpandedPattern ==
  /\ call.fn = "toBraceExpandedPattern"
  /\ call.pc = "called"
  /\ call' = [call EXCEPT !.out = toBraceExpandedPattern(call.arg), !.pc = "returned"]
  /\ UNCHANGED providerVars

NextBrace == ToBraceExpandedPattern

SpecBrace == InitBrace /\ [][NextBrace]_vars

\* ------------------------------------------------------------------------
\* Calls of generateStructuredText
\* ------------------------------------------------------------------------

\* Further files: one with an extension, one whose whole name is "ts", one
\* in a directory whose name continues the name of directory b.
FileBCts == joinPath(workspaceRoot, <<"b", "/", "c", ".", "t", "s">>)
FileTs   == joinPath(workspaceRoot, <<"t", "s">>)
FileB0A  == joinPath(workspaceRoot, <<"b", "0", "/", "a">>)

\* The workspace the text is generated from.
GenFiles == {FileA, FileBA, FileBsA, FileBCA, FileBCts, FileTs, FileB0A}

\* The file lists passed to generateStructuredText: getSelectedFiles and the
\* quick pick give each uri once, in an order of their own.
Selections ==
  UNION {{q \in [1..n -> GenFiles] : \A i, j \in 1..n : q[i] = q[j] => i = j} :
           n \in 0..MaxSelected}

\* doc.getText() of the document opened for a uri.
textOf(uri) ==
  CASE uri = FileA    -> <<"x", " ", "\r", "\n", "x", "\t">>
    [] uri = FileBCts -> <<"x", " ", "x", " ", "\n">>
    [] OTHER          -> <<"x">>

\* The messages of the errors openTextDocument rejects with.
ReadErrors == {<<"cannot open">>}

\* `${err}` of an Error with that message.
errorText(message) == <<"Error: ">> \o message

InitGen ==
  /\ InitProviderIn({{}, GenFiles})
  /\ includeGlobs = <<>>
  /\ \E fileUris \in Selections : call = Called("generateStructuredText", fileUris)

\* generateStructuredText(fileUris) runs up to its first await.
GenerateStructuredText ==
  /\ call.fn = "generateStructuredText"
  /\ call.pc = "called"
  /\ call' = startGenerate(folders, call)
  /\ UNCHANGED providerVars

\* The awaited openTextDocument resolves; the call runs on to the next await
\* or to its return.
ReadResolved ==
  /\ call.fn = "generateStructuredText"
  /\ call.pc = "reading"
  /\ call.arg[call.i] \in fs
  /\ call' = readResolved(call, textOf(call.arg[call.i]))
  /\ UNCHANGED providerVars

\* The awaited openTextDocument rejects.
ReadRejected ==
  /\ call.fn = "generateStructuredText"
  /\ call.pc = "reading"
  /\ \E message \in ReadErrors : call' = readRejected(call, errorText(message))
  /\ UNCHANGED providerVars

NextGen ==
  \/ GenerateStructuredText
  \/ ReadResolved
  \/ ReadRejected

SpecGen == InitGen /\ [][NextGen]_vars

\* ------------------------------------------------------------------------
\* Vocabulary of the properties
\* ------------------------------------------------------------------------

Ids == 1..Len(nodes)

Range(seq) == {seq[i] : i \in 1..Len(seq)}

Kids(n) == IF nodes[n].hasChildren THEN Range(nodes[n].children) ELSE {}

\* The nodes below n, at every depth.
RECURSIVE Descendants(_)
Descendants(n) == Kids(n) \cup UNION {Descendants(k) : k \in Kids(n)}

IsDirNode(n)  == nodes[n].collapsibleState = "Collapsed"
IsFileNode(n) == nodes[n].collapsibleState = "None"

\* C1: toggleFile on a directory node negates the node's selected flag and
\* gives every descendant, at every depth, that same new value, whatever the
\* descendants held before.
C1_ToggleDirectoryPropagates ==
  (lastOp.op = "toggleFile" /\ IsDirNode(lastOp.node)) =>
     /\ nodes[lastOp.node].selected = ~pre[lastOp.node]
     /\ \A d \in Descendants(lastOp.node) :
          nodes[d].selected = nodes[lastOp.node].selected

\* A directory with a grandchild was toggled while its descendants held
\* differing values.
C1_Witness ==
  /\ lastOp.op = "toggleFile"
  /\ IsDirNode(lastOp.node)
  /\ \E k \in Kids(lastOp.node) : Kids(k) # {}
  /\ \E d, e \in Descendants(lastOp.node) : pre[d] # pre[e]

\* C2 as stated: two toggleFile(n) calls in a row restore the selected flag
\* of n and of every descendant of n.
C2_ToggleTwiceRestoresSubtree ==
  lastOp.twice =>
     \A m \in {lastOp.node} \cup Descendants(lastOp.node) :
        nodes[m].selected = pre2[m]

\* C2 amended: two toggleFile(n) calls in a row restore the selected flag of
\* n, and leave every descendant of n with the value n had before the first
\* call.
C2_ToggleTwiceRestoresNode ==
  lastOp.twice =>
     /\ nodes[lastOp.node].selected = pre2[lastOp.node]
     /\ \A d \in Descendants(lastOp.node) : nodes[d].selected = pre2[lastOp.node]

\* A directory was toggled twice in a row, its descendants having held
\* differing values before the first call.
C2_Witness ==
  /\ lastOp.twice
  /\ \E d, e \in Descendants(lastOp.node) : pre2[d] # pre2[e]

\* C3: toggleFile(n) leaves the selected flag of every node outside the
\* subtree of n as it was; for a file node n, of every node but n.
C3_ToggleFrame ==
  lastOp.op = "toggleFile" =>
     /\ \A m \in Ids \ ({lastOp.node} \cup Descendants(lastOp.node)) :
          nodes[m].selected = pre[m]
     /\ IsFileNode(lastOp.node) =>
          \A m \in Ids \ {lastOp.node} : nodes[m].selected = pre[m]

\* A node with a parent and a sibling was toggled, while nodes outside its
\* subtree held the old value and others the new value of the node.
C3_Witness ==
  /\ lastOp.op = "toggleFile"
  /\ \E p \in Ids : {lastOp.node} \subseteq Kids(p) /\ Kids(p) # {lastOp.node}
  /\ \E m, k \in Ids \ ({lastOp.node} \cup Descendants(lastOp.node)) :
       nodes[m].selected /\ ~nodes[k].selected

\* C4: getSelectedFiles returns the file nodes whose selected flag is true,
\* each once, and no directory node, whatever flags the directories hold.
C4_SelectedFilesExact ==
  lastOp.op = "getSelectedFiles" =>
     /\ Range(result) = {nodes[n].uri : n \in {m \in Ids : IsFileNode(m) /\ nodes[m].selected}}
     /\ Len(result) = Cardinality({m \in Ids : IsFileNode(m) /\ nodes[m].selected})
     /\ \A d \in Ids : IsDirNode(d) => nodes[d].uri \notin Range(result)

\* getSelectedFiles ran on a tree with a selected directory, a selected file
\* below an unselected directory, and an unselected file.
C4_Witness ==
  /\ lastOp.op = "getSelectedFiles"
  /\ \E d \in Ids : IsDirNode(d) /\ nodes[d].selected
  /\ \E d \in Ids : /\ IsDirNode(d) /\ ~nodes[d].selected
                    /\ \E f \in Kids(d) : IsFileNode(f) /\ nodes[f].selected
  /\ \E f \in Ids : IsFileNode(f) /\ ~nodes[f].selected

\* A children sequence lists directories before files, names ascending
\* within each group.
Ordered(arr) ==
  \A i, j \in 1..Len(arr) :
     i < j =>
       /\ ~(IsFileNode(arr[i]) /\ IsDirNode(arr[j]))
       /\ (IsDirNode(arr[i]) <=> IsDirNode(arr[j])) =>
            localeCompare(nodes[arr[i]].label, nodes[arr[j]].label) <= 0

\* C5: in the tree of a completed build, and after any toggleFile, selectAll
\* and selectNone on it, the root sequence and every children sequence list
\* directories before files, names ascending within each group.
C5_Ordering ==
  built.outcome = "complete" =>
     /\ Ordered(rootNodes)
     /\ \A n \in Ids : Ordered(nodes[n].children)

\* Selection operations have run on a built tree in which a file name sorts
\* before a directory name, both at the root and inside a directory.
C5_Witness ==
  /\ built.outcome = "complete"
  /\ lastOp.op \in {"toggleFile", "selectAll", "selectNone"}
  /\ \E i, j \in 1..Len(rootNodes) :
       /\ IsDirNode(rootNodes[i]) /\ IsFileNode(rootNodes[j])
       /\ localeCompare(nodes[rootNodes[j]].label, nodes[rootNodes[i]].label) < 0
  /\ \E n \in Ids : \E d, f \in Kids(n) :
       /\ IsDirNode(d) /\ IsFileNode(f)
       /\ localeCompare(nodes[f].label, nodes[d].label) < 0

\* The parent of n, 0 for a root node.
Parent(n) == IF \E p \in Ids : n \in Kids(p) THEN CHOOSE p \in Ids : n \in Kids(p) ELSE 0

\* The relative path of a node: the labels from the root down, "/" between.
RECURSIVE PathOf(_)
PathOf(n) ==
  IF Parent(n) = 0 THEN nodes[n].label
  ELSE PathOf(Parent(n)) \o <<"/">> \o nodes[n].label

RECURSIVE JoinSlash(_)
JoinSlash(segments) ==
  IF Len(segments) = 1 THEN segments[1]
  ELSE segments[1] \o <<"/">> \o JoinSlash(Tail(segments))

\* The distinct relative paths a build meets: each file's path and the path
\* of each directory above it.
RelativePaths(files) ==
  UNION {{JoinSlash(SubSeq(Split(asRelativePath(f)), 1, k)) :
            k \in 1..Len(Split(asRelativePath(f)))} : f \in files}

\* C6: a completed build leaves exactly one node per distinct relative path
\* of its input: shared directories are created once, equal names in
\* different directories are distinct nodes, and a relative path met twice
\* yields one file node.
C6_OneNodePerPath ==
  lastOp.op = "build" =>
     /\ \A p \in RelativePaths(fs) : Cardinality({n \in Ids : PathOf(n) = p}) = 1
     /\ \A n \in Ids : PathOf(n) \in RelativePaths(fs)

\* The tree as a value: what each children sequence holds, position by
\* position, node identities left out.
RECURSIVE ShapeOf(_, _)
ShapeOf(heap, arr) ==
  [i \in 1..Len(arr) |->
     [uri              |-> heap[arr[i]].uri,
      label            |-> heap[arr[i]].label,
      collapsibleState |-> heap[arr[i]].collapsibleState,
      selected         |-> heap[arr[i]].selected,
      hasChildren      |-> heap[arr[i]].hasChildren,
      children         |-> ShapeOf(heap, heap[arr[i]].children)]]

\* C7: the tree and default selection a completed build publishes are those
\* of the build of the same files and globs with findFiles returning the
\* files in any other order, and stay so while the metadata fetches of the
\* nodes resolve or reject in any order.
C7_BuildDeterministic ==
  built.outcome = "complete" =>
     \A found \in Orders(fs) :
        LET st == buildTree(sortAllFiles(found),
                            findFiles(toBracePattern(built.include),
                                      toBracePattern(built.exclude), fs))
        IN ShapeOf(st.nodes, st.rootNodes) = ShapeOf(nodes, rootNodes)

\* A build of two files with the same name in one directory has completed;
\* one metadata fetch is done and another still pending.
C7_Witness ==
  /\ built.outcome = "complete"
  /\ Cardinality(fs) >= 2
  /\ \E p \in Ids : \E a, b \in Kids(p) : a # b /\ nodes[a].label = nodes[b].label
  /\ \E n, m \in Ids : contextValue[n] # "unset" /\ contextValue[m] = "unset"

\* A glob of the settings matches the relative path of a file.
Matches(glob, uri) == GlobMatch(glob, asRelativePath(uri))

\* The include set of a configuration; the empty list is the match-all set.
IncludeSet(include) == IF include = <<>> THEN <<PatAll>> ELSE include

IsIncluded(uri, include, exclude) ==
  /\ \E i \in 1..Len(include) : Matches(include[i], uri)
  /\ ~\E j \in 1..Len(exclude) : Matches(exclude[j], uri)

\* C8: right after a build completes, a file node is selected iff its
\* relative path matches a pattern of the include set (the match-all set when
\* the include list is empty) and no exclude pattern; no directory node is
\* selected.
C8_DefaultSelection ==
  lastOp.op = "build" =>
     \A n \in Ids :
        /\ IsFileNode(n) =>
             (nodes[n].selected <=>
                IsIncluded(nodes[n].uri, IncludeSet(built.include), built.exclude))
        /\ IsDirNode(n) => ~nodes[n].selected

\* A build from two include and two exclude globs has completed, with a
\* selected file, an unselected file and a directory in the tree.
C8_Witness ==
  /\ lastOp.op = "build"
  /\ Len(built.include) = 2 /\ Len(built.exclude) = 2
  /\ \E f, g, d \in Ids :
       /\ IsFileNode(f) /\ nodes[f].selected
       /\ IsFileNode(g) /\ ~nodes[g].selected
       /\ IsDirNode(d)

\* C9: a build from an empty include list selects every file that no
\* exclude pattern matches, as a build with include ["**/*"] does.
C9_EmptyIncludeMatchesAll ==
  (lastOp.op = "build" /\ built.include = <<>>) =>
     \A n \in Ids :
        IsFileNode(n) =>
          /\ nodes[n].selected <=>
               ~\E j \in 1..Len(built.exclude) : Matches(built.exclude[j], nodes[n].uri)
          /\ nodes[n].selected <=>
               nodes[n].uri \in findFiles(toBracePattern(<<PatAll>>),
                                          toBracePattern(built.exclude), fs)

\* A build from an empty include list has completed, with a selected file
\* and an excluded file in the tree.
C9_Witness ==
  /\ lastOp.op = "build"
  /\ built.include = <<>>
  /\ \E f, g \in Ids :
       /\ IsFileNode(f) /\ nodes[f].selected
       /\ IsFileNode(g) /\ ~nodes[g].selected

\* C10: selectAll (selectNone) leaves every node of the tree, directories
\* included, selected (unselected), so that getSelectedFiles then returns
\* every file (nothing); on a tree without roots both leave it as it is.
C10_SelectAllNone ==
  /\ lastOp.op = "selectAll" =>
       /\ \A n \in Ids : nodes[n].selected
       /\ Range(collect(nodes, rootNodes)) = {nodes[n].uri : n \in {m \in Ids : IsFileNode(m)}}
       /\ Len(collect(nodes, rootNodes)) = Cardinality({m \in Ids : IsFileNode(m)})
  /\ lastOp.op = "selectNone" =>
       /\ \A n \in Ids : ~nodes[n].selected
       /\ collect(nodes, rootNodes) = <<>>
  /\ (lastOp.op \in {"selectAll", "selectNone"} /\ rootNodes = <<>>) =>
       /\ nodes = <<>>
       /\ fired = WholeTree

\* selectAll has run on a tree with a directory inside a directory, in which
\* a directory and a file were unselected before.
C10_Witness ==
  /\ lastOp.op = "selectAll"
  /\ \E d \in Ids : IsDirNode(d) /\ Parent(d) # 0 /\ ~pre[d]
  /\ \E f \in Ids : IsFileNode(f) /\ ~pre[f]

\* C11: getSelectedFiles on a tree in which a directory node has lost its
\* children (nulled or emptied from outside) returns no entry for that
\* directory, whatever the selected flags are.
C11_CorruptedDirectoryContributesNothing ==
  lastOp.op = "getSelectedFiles" =>
     \A d \in Ids : (IsDirNode(d) /\ Kids(d) = {}) => nodes[d].uri \notin Range(result)

\* The braces of p are balanced: every "}" closes an open "{" and none stays open.
RECURSIVE BalancedFrom(_, _)
BalancedFrom(p, depth) ==
  IF p = <<>> THEN depth = 0
  ELSE IF Head(p) = "{" THEN BalancedFrom(Tail(p), depth + 1)
  ELSE IF Head(p) = "}" THEN depth > 0 /\ BalancedFrom(Tail(p), depth - 1)
  ELSE BalancedFrom(Tail(p), depth)

Balanced(p) == BalancedFrom(p, 0)

HasBrace(p) == \E i \in 1..Len(p) : p[i] \in {"{", "}"}

\* The strings a pattern with balanced braces stands for: its first group,
\* taken with its matching "}", is replaced by one of the alternatives
\* between its top-level commas, that alternative with its own groups
\* replaced and then trimmed; the rest of the pattern likewise.
RECURSIVE Expansions(_)
Expansions(p) ==
  LET opens == {i \in 1..Len(p) : p[i] = "{"}
  IN IF opens = {} THEN {p}
     ELSE LET i == CHOOSE k \in opens : \A m \in opens : k <= m
              j == i - 1 + CloseBraceFrom(SubSeq(p, i, Len(p)), 1, 0)
          IN {SubSeq(p, 1, i - 1) \o trim(e) \o rest :
                e \in UNION {Expansions(alt) :
                               alt \in Alternatives(SubSeq(p, i + 1, j - 1), <<>>, 0)},
                rest \in Expansions(SubSeq(p, j + 1, Len(p)))}

Returned(fn) == call.fn = fn /\ call.pc = "returned"

\* C12: for a pattern with balanced braces toBraceExpandedPattern returns,
\* each exactly once, the strings obtained by replacing every brace group,
\* nested groups included, by one of its trimmed alternatives; a pattern
\* without braces gives the one-element result holding the pattern.
C12_BraceExpansion ==
  (Returned("toBraceExpandedPattern") /\ Balanced(call.arg)) =>
     /\ Range(call.out) = Expansions(call.arg)
     /\ Len(call.out) = Cardinality(Expansions(call.arg))
     /\ ~HasBrace(call.arg) => call.out = <<call.arg>>

\* The call on "a{b{c,d},e}f" has returned abcf, abdf and aef.
C12_Witness ==
  /\ Returned("toBraceExpandedPattern")
  /\ call.arg = PatDeep
  /\ Range(call.out) = {<<"a", "b", "c", "f">>, <<"a", "b", "d", "f">>, <<"a", "e", "f">>}

\* C13: an empty group stands for the empty string alone: the result for
\* prefix + "{}" + suffix is the result for prefix + suffix, and is the one
\* string prefix + suffix when these hold no brace.
C13_EmptyGroup ==
  Returned("toBraceExpandedPattern") =>
     \A i \in 1..(Len(call.arg) - 1) :
        (call.arg[i] = "{" /\ call.arg[i + 1] = "}") =>
           LET prefix == SubSeq(call.arg, 1, i - 1)
               suffix == SubSeq(call.arg, i + 2, Len(call.arg))
           IN /\ call.out = toBraceExpandedPattern(prefix \o suffix)
              /\ ~HasBrace(prefix \o suffix) => call.out = <<prefix \o suffix>>

\* A call on a pattern with an empty group inside another group, beside a
\* second alternative, has returned.
C13_Witness ==
  /\ Returned("toBraceExpandedPattern")
  /\ call.arg = <<"{", "a", "{", "}", ",", "}">>
  /\ call.out = <<<<"a">>, <<>>>>

\* C14: toBraceExpandedPattern fails with a MalformedPatternError exactly on
\* the patterns whose braces are unbalanced.
C14_UnbalancedFails ==
  Returned("toBraceExpandedPattern") => (call.threw <=> ~Balanced(call.arg))

\* The lines of one kind among the lines of a text, in order.
LinesOf(out, kinds) == SelectSeq(out, LAMBDA line : line.kind \in kinds)

\* The relative paths of the begin markers of a text, in order.
BlockPaths(out) ==
  LET begins == LinesOf(out, {"begin"})
  IN [k \in 1..Len(begins) |-> begins[k].text]

\* The lines of run stand in out one behind the other.
HasRun(out, run) ==
  \E start \in 0..(Len(out) - Len(run)) : SubSeq(out, start + 1, start + Len(run)) = run

\* C15: generateStructuredText emits one content block per selected path, in
\* ascending order of relative path, whatever the order of the input list.
C15_BlocksSorted ==
  (Returned("generateStructuredText") /\ folders) =>
     LET paths == BlockPaths(call.out)
     IN /\ Len(paths) = Len(call.arg)
        /\ Range(paths) = {asRelativePath(call.arg[k]) : k \in 1..Len(call.arg)}
        /\ \A i, j \in 1..Len(paths) : i < j => compareCodeUnits(paths[i], paths[j]) < 0

\* The block of read k of the call as the text must hold it: the markers
\* with the relative path around the notice with the message of the error,
\* or around the normalized text of the file, fenced if it has a language.
BlockHeld(out, read) ==
  LET relPath == asRelativePath(read.uri)
      begin   == Line("begin", 0, relPath)
      end     == Line("end", 0, relPath)
      content == Line("content", 0, normalize(textOf(read.uri)))
  IN IF read.ok
     THEN \/ HasRun(out, <<begin, content, end>>)
          \/ \E lang \in {"typescript", "javascript"} :
                HasRun(out, <<begin, Line("fence", 0, <<lang>>), content,
                              Line("fence", 0, <<>>), end>>)
     ELSE \E notice \in Range(LinesOf(out, {"error"})) :
             /\ HasRun(out, <<begin, notice, end>>)
             /\ \E message \in ReadErrors : \E k \in 1..Len(notice.text) :
                   notice.text[k] = message[1]

C17_NoWorkspaceEmpty ==
  (Returned("generateStructuredText") /\ ~folders) =>
     /\ call.out = <<>>
     /\ call.reads = <<>>
     /\ ~call.threw

\* A call with several files has returned while no workspace folder is open.
C17_Witness ==
  /\ Returned("generateStructuredText")
  /\ ~folders
  /\ Len(call.arg) >= 2

\* The directories above the files of a list, each as its segments.
DirsAbove(fileUris) ==
  UNION {{SubSeq(Split(asRelativePath(fileUris[k])), 1, n) :
            n \in 1..(Len(Split(asRelativePath(fileUris[k]))) - 1)} :
         k \in 1..Len(fileUris)}

\* The number of lines of out of one kind with that indent and text.
CountLines(out, kind, indent, text) ==
  Len(SelectSeq(out, LAMBDA line : line = Line(kind, indent, text)))

\* C18: in the directory listing each directory (cumulative path) has
\* exactly one line, however many selected files lie beneath it, and each
\* selected file exactly one line.
C18_ListingOnce ==
  (Returned("generateStructuredText") /\ folders) =>
     LET dirs  == DirsAbove(call.arg)
         files == {Split(asRelativePath(call.arg[k])) : k \in 1..Len(call.arg)}
         Same(a, b) == Len(a) = Len(b) /\ a[Len(a)] = b[Len(b)]
     IN /\ Len(LinesOf(call.out, {"folder"})) = Cardinality(dirs)
        /\ \A d \in dirs :
             CountLines(call.out, "folder", 2 * (Len(d) - 1), d[Len(d)])
               = Cardinality({e \in dirs : Same(d, e)})
        /\ Len(LinesOf(call.out, {"file"})) = Len(call.arg)
        /\ \A f \in files :
             CountLines(call.out, "file", 2 * (Len(f) - 1), f[Len(f)])
               = Cardinality({k \in 1..Len(call.arg) :
                                Same(f, Split(asRelativePath(call.arg[k])))})

\* A call has returned whose list holds three files below directory b, one
\* of them in its directory c.
C18_Witness ==
  /\ Returned("generateStructuredText")
  /\ folders
  /\ Range(call.arg) = {FileBA, FileBsA, FileBCA}

\* C19: when a build has completed (tree published, whole-tree notification
\* fired), the metadata fetch of every node it created has resolved.
C19_BuildAfterFetches ==
  (lastOp.op = "build" /\ fired = WholeTree) =>
     \A n \in Ids : contextValue[n] # "unset"

\* The nodes reachable from the root sequence.
Reachable == Range(rootNodes) \cup UNION {Descendants(r) : r \in Range(rootNodes)}

\* The number of places at which node n stands in a children sequence or in
\* the root sequence.
Places(n) ==
  Cardinality({i \in 1..Len(rootNodes) : rootNodes[i] = n})
  + Cardinality({pair \in Ids \X (1..Len(nodes)) :
                   /\ pair[2] <= Len(nodes[pair[1]].children)
                   /\ nodes[pair[1]].children[pair[2]] = n})

\* The directory paths above the files of the workspace.
DirPaths(files) ==
  UNION {{JoinSlash(SubSeq(Split(asRelativePath(f)), 1, k)) :
            k \in 1..(Len(Split(asRelativePath(f))) - 1)} : f \in files}

\* C20: once rebuilds that were in flight together have ended, the tree is
\* exactly the result of the one that completed last: one file node per file
\* found, selected by the globs that rebuild read, one unselected directory
\* node per directory, every node at one place, and nothing else.
C20_LastRebuildWins ==
  (overlapped /\ pending = <<>> /\ built.outcome = "complete") =>
     /\ Reachable = Ids
     /\ \A n \in Ids : Places(n) = 1
     /\ {nodes[n].uri : n \in {m \in Ids : IsFileNode(m)}} = fs
     /\ Cardinality({m \in Ids : IsFileNode(m)}) = Cardinality(fs)
     /\ {PathOf(d) : d \in {m \in Ids : IsDirNode(m)}} = DirPaths(fs)
     /\ Cardinality({m \in Ids : IsDirNode(m)}) = Cardinality(DirPaths(fs))
     /\ \A n \in Ids :
          /\ IsFileNode(n) =>
               (nodes[n].selected <=>
                  IsIncluded(nodes[n].uri, IncludeSet(built.include), built.exclude))
          /\ IsDirNode(n) => ~nodes[n].selected
     /\ DOMAIN nodeIndex = RelativePaths(fs)
     /\ \A path \in DOMAIN nodeIndex : PathOf(nodeIndex[path]) = path

\* Two rebuilds were in flight together and both have ended; the one that
\* completed last had read its globs before the other was started, so the
\* tree, with a selected and an unselected file, stems from the older globs.
C20_Witness ==
  /\ overlapped
  /\ pending = <<>>
  /\ built.outcome = "complete"
  /\ built.include # includeGlobs
  /\ \E f, g \in Ids :
       /\ IsFileNode(f) /\ nodes[f].selected
       /\ IsFileNode(g) /\ ~nodes[g].selected

\* The files that have a node in the tree hanging from the root sequence.
FilesInTree == {nodes[n].uri : n \in {m \in Reachable : IsFileNode(m)}}

\* C21: wherever another operation can run, and after a rebuild that failed
\* part-way, the root sequence holds a whole tree: the one from before the
\* first build, or the complete, sorted tree of a build, never a partially
\* populated or unsorted one.
C21_AllOrNothing ==
  \/ built.outcome = "none" /\ rootNodes = <<>>
  \/ /\ FilesInTree = fs
     /\ Ordered(rootNodes)
     /\ \A n \in Ids : Ordered(nodes[n].children)

\* C22: a build whose path discovery fails (an awaited findFiles rejects),
\* or that finds no workspace folder, ends with an empty tree: zero root
\* nodes.
C22_DiscoveryFailureEmptyTree ==
  [][((\E i \in 1..Len(pending) : FindFilesRejected(i)) \/ (LoadConfig /\ ~folders))
       => rootNodes' = <<>>]_vars

\* The selected file nodes of the tree, by uri.
SelectedInTree == {nodes[n].uri : n \in {m \in Reachable : IsFileNode(m) /\ nodes[m].selected}}

\* C23: right after a rebuild completes, the selected file nodes of the tree
\* are the files its globs select by default, and getSelectedFiles would
\* return just these, whatever toggleFile, selectAll and selectNone did to
\* the tree it replaces, before the rebuild or while it was in flight.
C23_RebuildResetsSelection ==
  lastOp.op = "build" =>
     /\ SelectedInTree =
          {f \in fs : IsIncluded(f, IncludeSet(built.include), built.exclude)}
     /\ Range(collect(nodes, rootNodes)) = SelectedInTree
     /\ \A n \in Reachable : IsDirNode(n) => ~nodes[n].selected

\* A rebuild has completed; in the tree it replaced a directory was selected
\* (only toggleFile and selectAll do that) and a file node held the opposite
\* of the flag the node of that file holds now.
C23_Witness ==
  /\ lastOp.op = "build"
  /\ \E d \in Ids \ Reachable : IsDirNode(d) /\ nodes[d].selected
  /\ \E o \in Ids \ Reachable : \E n \in Reachable :
       /\ IsFileNode(o) /\ IsFileNode(n)
       /\ nodes[o].uri = nodes[n].uri
       /\ nodes[o].selected # nodes[n].selected

C25_ChangeNotification ==
  /\ lastOp.op = "toggleFile" => fired = lastOp.node /\ fired \in Ids
  /\ lastOp.op \in {"selectAll", "selectNone", "build"} => fired = WholeTree
  /\ (lastOp.op = "loadConfig" /\ ~folders) => fired = WholeTree
  /\ lastOp.op = "getSelectedFiles" => fired = NotFired

\* toggleFile has run on a directory below the root, changing the flags of
\* its subtree, and has fired that node.
C25_Witness ==
  /\ lastOp.op = "toggleFile"
  /\ IsDirNode(lastOp.node)
  /\ Parent(lastOp.node) # 0
  /\ fired = lastOp.node
  /\ \E d \in Descendants(lastOp.node) : nodes[d].selected # pre[d]

\* The extension of a relative path: what follows the last "." of its last
\* segment, <<>> when that segment holds no ".".
Extension(relPath) ==
  LET segments == Split(relPath)
      name     == segments[Len(segments)]
      dots     == {k \in 1..Len(name) : name[k] = "."}
  IN IF dots = {} THEN <<>>
     ELSE SubSeq(name, (CHOOSE k \in dots : \A m \in dots : m <= k) + 1, Len(name))

\* The extension-to-tag table.
TagOf(ext) ==
  IF ext = <<"t", "s">> THEN <<"typescript">>
  ELSE IF ext = <<"j", "s">> THEN <<"javascript">>
  ELSE <<>>

\* C26: the content of a file that was read is fenced with the tag of the
\* file's extension when the table holds that extension; a file with another
\* extension, or with none, has its content between the markers unfenced.
C26_FenceByExtension ==
  (Returned("generateStructuredText") /\ folders) =>
     \A k \in 1..Len(call.reads) :
        call.reads[k].ok =>
          LET relPath == asRelativePath(call.reads[k].uri)
              begin   == Line("begin", 0, relPath)
              end     == Line("end", 0, relPath)
              content == Line("content", 0, normalize(textOf(call.reads[k].uri)))
              tag     == TagOf(Extension(relPath))
          IN IF tag # <<>>
             THEN HasRun(call.out, <<begin, Line("fence", 0, tag), content,
                                     Line("fence", 0, <<>>), end>>)
             ELSE HasRun(call.out, <<begin, content, end>>)

\* C27: once no rebuild is in flight, the tree of a completed build is the
\* one of the include/exclude configuration loaded last: the rebuild that
\* touched the tree last read these globs, and the selected files are those
\* they select.
C27_LatestConfigWins ==
  (pending = <<>> /\ built.outcome = "complete" /\ folders) =>
     /\ built.include = includeGlobs /\ built.exclude = excludeGlobs
     /\ SelectedInTree = {f \in fs : IsIncluded(f, IncludeSet(includeGlobs), excludeGlobs)}

\* C28: getChildren with a directory node returns the children of that node,
\* with a file node the empty sequence, and the root nodes only when called
\* without a node.
C28_GetChildren ==
  lastOp.op = "getChildren" =>
     /\ lastOp.node = 0 => result = rootNodes
     /\ (lastOp.node # 0 /\ IsDirNode(lastOp.node)) => result = nodes[lastOp.node].children
     /\ (lastOp.node # 0 /\ IsFileNode(lastOp.node)) => result = <<>>

\* The index of the nearest line before line k with that indent, 0 if none.
NearestAbove(lines, k, indent) ==
  LET above == {j \in 1..(k - 1) : lines[j].indent = indent}
  IN IF above = {} THEN 0 ELSE CHOOSE j \in above : \A m \in above : m <= j

\* The segments a reader of the listing takes line k to stand for: its own
\* text behind those of the nearest preceding line of each lesser depth.
RECURSIVE ChainOf(_, _)
ChainOf(lines, k) ==
  IF lines[k].indent = 0 THEN <<lines[k].text>>
  ELSE LET j == NearestAbove(lines, k, lines[k].indent - 2)
       IN IF j = 0 \/ lines[j].kind # "folder" THEN <<>>
          ELSE IF ChainOf(lines, j) = <<>> THEN <<>>
          ELSE Append(ChainOf(lines, j), lines[k].text)

\* C29: in the directory listing every line stands below the line of its own
\* parent directory: read by nearest preceding lines of lesser depth, the
\* file lines give each selected path once and the folder lines each
\* directory above a selected path once, also with mixed separators.
C29_ListingParents ==
  (Returned("generateStructuredText") /\ folders) =>
     LET lines == LinesOf(call.out, {"folder", "file"})
         Read(kind, segments) ==
           Cardinality({k \in 1..Len(lines) :
                          lines[k].kind = kind /\ ChainOf(lines, k) = segments})
     IN /\ \A i \in 1..Len(call.arg) :
             Read("file", Split(asRelativePath(call.arg[i])))
               = Cardinality({j \in 1..Len(call.arg) :
                                Split(asRelativePath(call.arg[j]))
                                  = Split(asRelativePath(call.arg[i]))})
        /\ \A d \in DirsAbove(call.arg) : Read("folder", d) = 1

\* C30: toggleFile with a node of a tree that a rebuild has replaced changes
\* no selected flag of the tree in place, and getSelectedFiles returns after
\* the call what it returned before it.
C30_StaleToggleFrame ==
  (lastOp.op = "toggleFile" /\ lastOp.node \notin Reachable) =>
     /\ \A m \in Reachable : nodes[m].selected = pre[m]
     /\ collect(nodes, rootNodes)
          = collect([m \in Ids |-> [nodes[m] EXCEPT !.selected = pre[m]]], rootNodes)

\* toggleFile has run on the directory node b of a replaced tree, changing
\* the flags of that node and of the file nodes below it, while the tree in
\* place has nodes for the same directory and files.
C30_Witness ==
  /\ lastOp.op = "toggleFile"
  /\ lastOp.node \notin Reachable
  /\ IsDirNode(lastOp.node)
  /\ nodes[lastOp.node].selected # pre[lastOp.node]
  /\ \E d \in Descendants(lastOp.node) : nodes[d].selected # pre[d]
  /\ \E n \in Reachable : nodes[n].uri = nodes[lastOp.node].uri
  /\ \A d \in Descendants(lastOp.node) : \E n \in Reachable : nodes[n].uri = nodes[d].uri

====
